---- MODULE Spec2Model ----
(***************************************************************************)
(* A model of bot.py: the monthly worksheet resolver, the expense writer   *)
(* and the add-expense dialogue (a ConversationHandler keyed by chat and   *)
(* user, with user_data keyed by user).                                    *)
(*                                                                         *)
(* Text is modelled as a sequence of one-character strings, except that    *)
(* the four characters "cat_" form one token, so that str.strip,           *)
(* str.split(' ', 1), str.replace(',', '.') and str.replace("cat_", "")    *)
(* are computed on the characters.  A cell of a worksheet holds such a     *)
(* text; <<>> is the empty cell.  The remote spreadsheet stores what is    *)
(* written to it and fails a write outside the grid.  Every handler runs   *)
(* to completion before the next update is taken (the application is built *)
(* without concurrent_updates), so a handler is one action.                *)
(***************************************************************************)
EXTENDS Integers, Sequences, FiniteSets, TLC

\* ------------------------------------------------------------------ bounds
\* Rows of a worksheet (the code creates 1000).
NumRows == 3
\* Columns of a worksheet (the code creates 40).
NumCols == 4
\* The system date runs over months 1..MaxMonth.
MaxMonth == 2
\* Calls of add_expense_to_sheet in one behaviour.
MaxWrites == 2

\* ------------------------------------------------------------------- text
EmptyStr == <<>>

IsSpace(ch) == ch = " "

RECURSIVE LStrip(_)
LStrip(s) ==
    IF s = <<>> THEN <<>>
    ELSE IF IsSpace(Head(s)) THEN LStrip(Tail(s)) ELSE s

RECURSIVE RStrip(_)
RStrip(s) ==
    IF s = <<>> THEN <<>>
    ELSE IF IsSpace(s[Len(s)]) THEN RStrip(SubSeq(s, 1, Len(s) - 1)) ELSE s

\* str.strip()
Strip(s) == RStrip(LStrip(s))

\* The position of the first " " of s, 0 when there is none.
RECURSIVE FindSpace(_, _)
FindSpace(s, i) ==
    IF i > Len(s) THEN 0
    ELSE IF s[i] = " " THEN i ELSE FindSpace(s, i + 1)

\* str.split(' ', 1): one part when s holds no space, else the text before the
\* first space and all the text after it.
Split1(s) ==
    LET p == FindSpace(s, 1)
    IN  IF p = 0 THEN <<s>>
        ELSE <<SubSeq(s, 1, p - 1), SubSeq(s, p + 1, Len(s))>>

\* str.replace(',', '.')
ReplaceComma(s) == [i \in 1..Len(s) |-> IF s[i] = "," THEN "." ELSE s[i]]

\* f"cat_{category}"
CallbackData(category) == <<"cat_">> \o category

\* query.data.replace("cat_", ""): every occurrence is removed.
RemoveCatPrefix(data) == SelectSeq(data, LAMBDA ch : ch # "cat_")

\* ----------------------------------------------------------------- months
\* datetime.now().strftime("%B %Y") for the months of the model; month 0 is a
\* month before the process started.
MonthNames ==
    <<"January 2025", "February 2025", "March 2025", "April 2025", "May 2025">>

MonthLabel(m) == IF m = 0 THEN "December 2024" ELSE MonthNames[m]

\* datetime.strptime(title, "%B %Y") succeeds.
ParsesAsMonth(title) == title \in {MonthLabel(m) : m \in 0..Len(MonthNames)}

\* ------------------------------------------------------------- worksheets
\* A worksheet is [title, cells]; cells[r][c] is the text of the cell at row r,
\* column c.  The spreadsheet is the sequence of its worksheets in listing order.
EmptyCells == [r \in 1..NumRows |-> [c \in 1..NumCols |-> EmptyStr]]

\* The values of a row or column as the service returns them: without the
\* trailing empty cells.
RECURSIVE TrimTrailing(_)
TrimTrailing(vals) ==
    IF vals = <<>> THEN <<>>
    ELSE IF vals[Len(vals)] = EmptyStr
         THEN TrimTrailing(SubSeq(vals, 1, Len(vals) - 1))
         ELSE vals

\* worksheet.row_values(r)
RowValues(ws, r) == TrimTrailing([c \in 1..NumCols |-> ws.cells[r][c]])

\* worksheet.col_values(c)
ColValues(ws, c) == TrimTrailing([r \in 1..NumRows |-> ws.cells[r][c]])

\* sheet.worksheet(title): the place of the worksheet in the listing, 0 for
\* WorksheetNotFound.
RECURSIVE FindFrom(_, _, _)
FindFrom(sh, title, i) ==
    IF i > Len(sh) THEN 0
    ELSE IF sh[i].title = title THEN i ELSE FindFrom(sh, title, i + 1)

FindWorksheet(sh, title) == FindFrom(sh, title, 1)

\* sheet.add_worksheet(title=..., rows=1000, cols=40): an empty worksheet at the
\* end of the listing.
AddWorksheet(sh, title) == Append(sh, [title |-> title, cells |-> EmptyCells])

\* worksheet.update('A1', [values]): the values go to row 1 from column 1 on.
UpdateRow(sh, i, values) ==
    [sh EXCEPT ![i].cells[1] =
        [c \in 1..NumCols |-> IF c <= Len(values) THEN values[c] ELSE @[c]]]

\* The service refuses a cell outside the grid of the worksheet.
InGrid(row, col) == row \in 1..NumRows /\ col \in 1..NumCols

\* worksheet.update_cell(row, col, value)
UpdateCell(sh, i, row, col, value) == [sh EXCEPT ![i].cells[row][col] = value]

\* The loop of setup_monthly_worksheet over sheet.worksheets(): the first
\* worksheet in listing order, other than the current month's and "Sheet1",
\* whose title parses as a month; 0 when there is none.
RECURSIVE PreviousWorksheetFrom(_, _, _)
PreviousWorksheetFrom(sh, current_month_tab, i) ==
    IF i > Len(sh) THEN 0
    ELSE IF /\ sh[i].title # current_month_tab
            /\ sh[i].title # "Sheet1"
            /\ ParsesAsMonth(sh[i].title)
         THEN i
         ELSE PreviousWorksheetFrom(sh, current_month_tab, i + 1)

\* if header_row and any(cell.strip() for cell in header_row if cell)
HasContent(header_row) ==
    \E i \in 1..Len(header_row) :
        header_row[i] # EmptyStr /\ Strip(header_row[i]) # EmptyStr

\* ----------------------------------------------------------- category map
\* A dict is a function on the set of its keys.
EmptyDict == [x \in {} |-> 0]

Put(d, k, v) == [x \in (DOMAIN d) \cup {k} |-> IF x = k THEN v ELSE d[x]]

\* The loop of lines 112-116 over enumerate(headers, start=1).
RECURSIVE RescanFirstWins(_, _, _)
RescanFirstWins(headers, col_index, map) ==
    IF col_index > Len(headers) THEN map
    ELSE LET value == headers[col_index]
         IN  RescanFirstWins(headers, col_index + 1,
                IF value # EmptyStr /\ Strip(value) # EmptyStr
                   /\ Strip(value) \notin DOMAIN map
                THEN Put(map, Strip(value), col_index)
                ELSE map)

RECURSIVE Rescan(_, _, _)
Rescan(headers, col_index, map) ==
    IF col_index > Len(headers) THEN map
    ELSE LET value == headers[col_index]
         IN  Rescan(headers, col_index + 1,
                IF value # EmptyStr /\ Strip(value) # EmptyStr
                THEN Put(map, Strip(value), col_index)
                ELSE map)

BuildCategoryMap(headers) == Rescan(headers, 1, EmptyDict)

\* --------------------------------------------------------------- resolver
\* get_current_month on the globals (cmap, cache) at system month m: the month's
\* label, and the globals as the call leaves them.
get_current_month(cmap, cache, m) ==
    LET current_month == MonthLabel(m)
    IN  IF cache # current_month
        THEN [month |-> current_month,
              category_map |-> EmptyDict,
              current_month_cache |-> current_month]
        ELSE [month |-> current_month,
              category_map |-> cmap,
              current_month_cache |-> cache]

\* Where a remote call of the resolver may fail: "open" before the worksheet is
\* looked up or created, "seed" after add_worksheet and before the header is
\* copied, "scan" at the final row_values(1).
ResolverFailures == {"none", "open", "seed", "scan"}

\* What a call of setup_monthly_worksheet leaves: the globals (the cache as
\* get_current_month left it in g, the index `map`), the spreadsheet s, whether
\* the call raised, the place ws of the worksheet returned, and whether the
\* call created the worksheet and seeded its header.
ResolverResult(g, map, s, raised, ws, created, seeded) ==
    [category_map |-> map, current_month_cache |-> g.current_month_cache,
     sheet |-> s, raised |-> raised,
     resolver |-> IF raised THEN "raised" ELSE "returned",
     ws |-> ws, created |-> created, seeded |-> seeded]

\* Lines 109-116: the index is rebuilt from row 1 of worksheet ws.
RescanCategories(g, sh, ws, created, seeded, fail) ==
    IF fail = "scan"
    THEN ResolverResult(g, g.category_map, sh, TRUE, ws, created, seeded)
    ELSE ResolverResult(g, BuildCategoryMap(RowValues(sh[ws], 1)), sh, FALSE,
                        ws, created, seeded)

\* Lines 93-103: the header row of previous_worksheet (0 when there is none)
\* is copied into the new worksheet ws when it has content.
CopyHeader(g, sh, ws, previous_worksheet, fail) ==
    IF fail = "seed"
    THEN ResolverResult(g, g.category_map, sh, TRUE, ws, TRUE, FALSE)
    ELSE IF previous_worksheet # 0
            /\ HasContent(RowValues(sh[previous_worksheet], 1))
    THEN RescanCategories(g,
             UpdateRow(sh, ws, RowValues(sh[previous_worksheet], 1)),
             ws, TRUE, TRUE, fail)
    ELSE RescanCategories(g, sh, ws, TRUE, FALSE, fail)

\* Lines 63-90: the worksheet of the month g.month is looked up; when it is
\* missing it is added and the previous month's worksheet searched for.
UseWorksheet(g, sh, fail) ==
    LET found == FindWorksheet(sh, g.month)
        sh1 == AddWorksheet(sh, g.month)
    IN  IF fail = "open"
        THEN ResolverResult(g, g.category_map, sh, TRUE, found, FALSE, FALSE)
        ELSE IF found = 0
        THEN CopyHeader(g, sh1, Len(sh1),
                        PreviousWorksheetFrom(sh1, g.month, 1), fail)
        ELSE RescanCategories(g, sh, found, FALSE, FALSE, fail)

\* setup_monthly_worksheet on the globals (cmap, cache) and the spreadsheet sh
\* at system month m, with the remote failure `fail`.
setup_monthly_worksheet(cmap, cache, sh, m, fail) ==
    UseWorksheet(get_current_month(cmap, cache, m), sh, fail)

\* ----------------------------------------------------------------- writer
\* The loop of lines 136-141 over enumerate(col_values[1:], start=2): i is the
\* row looked at, start_row the row found so far.
RECURSIVE FirstEmptyRowNoBreak(_, _, _)
FirstEmptyRowNoBreak(col_values, i, start_row) ==
    IF i > Len(col_values) THEN start_row
    ELSE IF Strip(col_values[i]) # EmptyStr
         THEN FirstEmptyRowNoBreak(col_values, i + 1, i + 1)
         ELSE FirstEmptyRowNoBreak(col_values, i + 1, start_row)

RECURSIVE FirstEmptyRow(_, _, _)
FirstEmptyRow(col_values, i, start_row) ==
    IF i > Len(col_values) THEN start_row
    ELSE IF Strip(col_values[i]) # EmptyStr
         THEN FirstEmptyRow(col_values, i + 1, i + 1)
         ELSE start_row

\* Where a remote call of the writer may fail: in the resolver, at col_values,
\* or at one of the two update_cell calls.
WriterFailures == ResolverFailures \cup {"col", "amount", "desc"}

\* amount, *description_parts = amount_description.split(" ", 1)
AmountOf(amount_description) == Split1(amount_description)[1]

DescriptionOf(amount_description) ==
    LET parts == Split1(amount_description)
    IN  IF Len(parts) > 1 THEN parts[2] ELSE EmptyStr

\* The two update_cell calls of lines 150-151 on worksheet ws of sh, with the
\* remote failure `fail`: the spreadsheet they leave and which of them were done.
WriteCellsSameColumn(sh, ws, start_row, category_col, amount, description, fail) ==
    IF fail = "amount" \/ ~InGrid(start_row, category_col)
    THEN [sheet |-> sh, wrote_amount |-> FALSE, wrote_desc |-> FALSE]
    ELSE [sheet |-> UpdateCell(UpdateCell(sh, ws, start_row, category_col, amount),
                               ws, start_row, category_col, description),
          wrote_amount |-> TRUE, wrote_desc |-> TRUE]

WriteCells(sh, ws, start_row, category_col, amount, description, fail) ==
    LET description_col == category_col + 1
        sh1 == UpdateCell(sh, ws, start_row, category_col, amount)
    IN  IF fail = "amount" \/ ~InGrid(start_row, category_col)
        THEN [sheet |-> sh, wrote_amount |-> FALSE, wrote_desc |-> FALSE]
        ELSE IF fail = "desc" \/ ~InGrid(start_row, description_col)
        THEN [sheet |-> sh1, wrote_amount |-> TRUE, wrote_desc |-> FALSE]
        ELSE [sheet |-> UpdateCell(sh1, ws, start_row, description_col, description),
              wrote_amount |-> TRUE, wrote_desc |-> TRUE]

\* What a call of add_expense_to_sheet after the resolver result r leaves.
\* result is "ok" when the call returns, "not_found" for the ValueError of
\* line 127, "remote" for an exception of a remote call.
WriterResult(r, m, s, result, row, col, wrote_amount, wrote_desc) ==
    [category_map |-> r.category_map,
     current_month_cache |-> r.current_month_cache,
     sheet |-> s, result |-> result, resolver |-> r.resolver,
     created |-> r.created, seeded |-> r.seeded,
     title |-> MonthLabel(m), row |-> row, col |-> col,
     wrote_amount |-> wrote_amount, wrote_desc |-> wrote_desc]

\* Lines 143-151: the amount and the description are written into start_row.
AppendExpense(r, m, category_col, start_row, amount_description, fail) ==
    LET w == WriteCells(r.sheet, r.ws, start_row, category_col,
                        AmountOf(amount_description),
                        DescriptionOf(amount_description), fail)
    IN  WriterResult(r, m, w.sheet,
                     IF w.wrote_amount /\ w.wrote_desc THEN "ok" ELSE "remote",
                     start_row, category_col, w.wrote_amount, w.wrote_desc)

\* Lines 126-141 with a missing category written into column 1.
FindColumnDefault(r, m, category, amount_description, fail) ==
    IF r.raised THEN WriterResult(r, m, r.sheet, "remote", 0, 0, FALSE, FALSE)
    ELSE IF fail = "col"
    THEN WriterResult(r, m, r.sheet, "remote", 0, 1, FALSE, FALSE)
    ELSE AppendExpense(r, m, 1,
             FirstEmptyRow(ColValues(r.sheet[r.ws], 1), 2, 2),
             amount_description, fail)

\* Lines 126-141: the category's column is looked up in the index the
\* resolver left, and the first empty row of that column found.
FindColumn(r, m, category, amount_description, fail) ==
    IF r.raised THEN WriterResult(r, m, r.sheet, "remote", 0, 0, FALSE, FALSE)
    ELSE IF category \notin DOMAIN r.category_map
    THEN WriterResult(r, m, r.sheet, "not_found", 0, 0, FALSE, FALSE)
    ELSE IF fail = "col"
    THEN WriterResult(r, m, r.sheet, "remote", 0, r.category_map[category],
                      FALSE, FALSE)
    ELSE AppendExpense(r, m, r.category_map[category],
             FirstEmptyRow(ColValues(r.sheet[r.ws], r.category_map[category]),
                           2, 2),
             amount_description, fail)

\* add_expense_to_sheet(category, amount_description) on the globals
\* (cmap, cache) and the spreadsheet sh at system month m, with the remote
\* failure `fail`.
add_expense_to_sheet(cmap, cache, sh, m, category, amount_description, fail) ==
    FindColumn(setup_monthly_worksheet(cmap, cache, sh, m,
                   IF fail \in ResolverFailures THEN fail ELSE "none"),
               m, category, amount_description, fail)

\* ------------------------------------------------------------------ state
\* A conversation of the ConversationHandler is keyed by (chat, user);
\* context.user_data is keyed by the user alone.  u1 talks to the bot in two
\* chats, u2 in one.
Users == {"u1", "u2"}

Convs == {<<"c1", "u1">>, <<"c2", "u1">>, <<"c1", "u2">>}

UserOf(k) == k[2]

\* The key recorded for an update outside the dialogue.
NoKey == <<"-", "-">>

\* Category names and the texts of the model.
F == <<"F">>
T == <<"T">>

\* The free texts a user sends: "5 a", "5,5 a,b", "5  a" (two spaces) and "a".
\* Telegram delivers a text without leading or trailing whitespace.
Texts ==
    { <<"5", " ", "a">>,
      <<"5", ",", "5", " ", "a", ",", "b">>,
      <<"5", " ", " ", "a">>,
      <<"a">> }

PadRow(vals) == [c \in 1..NumCols |-> IF c <= Len(vals) THEN vals[c] ELSE EmptyStr]

\* A worksheet with the given header row and no entries.
Worksheet(title, header) ==
    [title |-> title, cells |-> [EmptyCells EXCEPT ![1] = PadRow(header)]]

\* A worksheet with the given header row and the given rows 2, 3, ...
FilledWorksheet(title, header, rows) ==
    [title |-> title,
     cells |-> [r \in 1..NumRows |->
                  IF r = 1 THEN PadRow(header)
                  ELSE IF r - 1 <= Len(rows) THEN PadRow(rows[r - 1])
                  ELSE PadRow(<<>>)]]

\* The spreadsheets the process may find when it starts in month 1.
InitialSpreadsheets ==
    { \* a new spreadsheet
      << Worksheet("Sheet1", <<>>) >>,
      \* the current month's worksheet exists
      << Worksheet("Sheet1", <<>>),
         Worksheet(MonthLabel(1), <<F, EmptyStr, T, EmptyStr>>) >>,
      \* only an earlier month exists, with adjacent categories
      << Worksheet("Sheet1", <<>>),
         Worksheet(MonthLabel(0), <<F, T>>) >>,
      \* a worksheet that is no month; the earlier month is listed first, its
      \* header cells carry blanks around the names
      << Worksheet("Notes", <<F>>),
         Worksheet(MonthLabel(0), <<<<" ", "T">>, <<" ">>>>),
         Worksheet(MonthLabel(1), <<F, EmptyStr, T>>) >>,
      \* adjacent categories, and entries with a gap in the second column
      << FilledWorksheet(MonthLabel(1), <<F, T>>,
            << <<<<"5">>, EmptyStr>>, <<EmptyStr, <<"a">>>> >>) >>,
      \* a category named twice, and one whose name holds "cat_"
      << Worksheet(MonthLabel(1), <<T, <<"T", " ">>, <<"cat_", "T">>>>) >> }

VARIABLES
    month,                \* the month of the system date
    category_map,         \* global category_map
    current_month_cache,  \* global current_month_cache, "None" before the first call
    sheet,                \* the remote spreadsheet
    conv,                 \* the state of each conversation
    user_data,            \* context.user_data of each user
    kbd,                  \* the categories on the keyboard of each dialogue's message
    writes,               \* the calls of add_expense_to_sheet so far
    last                  \* the update handled last and what its handler did

vars ==
    <<month, category_map, current_month_cache, sheet, conv, user_data, kbd,
      writes, last>>

\* The record of a handled update: the handler, the conversation, the reply
\* sent ("raised" when the handler ended by an exception), whether
\* setup_monthly_worksheet was called and returned, for a text of the dialogue
\* the text and the cell the writer computed, and for a press of a category
\* button its callback data.
Event(op, key, reply) ==
    [op |-> op, key |-> key, reply |-> reply, resolver |-> "not_called",
     text |-> EmptyStr, row |-> 0, col |-> 0]

Resolved(ev, e) == [ev EXCEPT !.resolver = e.resolver]

Init ==
    /\ month = 1
    /\ category_map = EmptyDict
    /\ current_month_cache = "None"
    /\ sheet \in InitialSpreadsheets
    /\ conv = [k \in Convs |-> "END"]
    /\ user_data = [u \in Users |-> EmptyDict]
    /\ kbd = [k \in Convs |-> {}]
    /\ writes = 0
    /\ last = Event("init", NoKey, "none")

\* ------------------------------------------------------------ dispatch
\* The updates of a conversation that the handlers registered in main tell
\* apart: the /expense command, the add_expense callback, the text of the
\* Add Expense button, the texts of the other keyboard buttons, any other text,
\* and the callbacks of the dialogue's buttons.
EntryUpdates == {"/expense", "add_expense", "Add Expense"}

ButtonTexts == {"Categories", "Open Spreadsheet", "Help"}

TextUpdates == ButtonTexts \cup {"Add Expense", "text"}

CallbackUpdates == {"add_expense", "cat_", "change_category", "cancel_expense"}

Updates == EntryUpdates \cup TextUpdates \cup CallbackUpdates

\* The handler that runs for update u of a conversation in state `state`
\* ("none" when no handler of the group matches).  An entry point is looked at
\* only while the conversation is in no state (allow_reentry is not set) and
\* there are no fallbacks; an update the ConversationHandler does not take goes
\* to the text handler registered after it, whose filter leaves out commands
\* and the Add Expense text.
HandlerReentry(state, u) ==
    IF u \in EntryUpdates THEN "expense_start"
    ELSE IF state = "CATEGORY" /\ u = "cat_" THEN "category_selected"
    ELSE IF state = "AMOUNT" /\ u \in TextUpdates
    THEN "amount_and_description_entered"
    ELSE IF state = "AMOUNT" /\ u = "change_category"
    THEN "change_category_handler"
    ELSE IF state = "AMOUNT" /\ u = "cancel_expense"
    THEN "cancel_expense_handler"
    ELSE IF u \in TextUpdates THEN "handle_text_messages"
    ELSE "none"

Handler(state, u) ==
    IF state = "END" /\ u \in EntryUpdates THEN "expense_start"
    ELSE IF state = "CATEGORY" /\ u = "cat_" THEN "category_selected"
    ELSE IF state = "AMOUNT" /\ u \in TextUpdates
    THEN "amount_and_description_entered"
    ELSE IF state = "AMOUNT" /\ u = "change_category"
    THEN "change_category_handler"
    ELSE IF state = "AMOUNT" /\ u = "cancel_expense"
    THEN "cancel_expense_handler"
    ELSE IF u \in TextUpdates \ {"Add Expense"} THEN "handle_text_messages"
    ELSE "none"

\* ------------------------------------------------------------- handlers
\* The entry guard left out: the resolver is never called.
EnsureCategoriesSkip(cmap, cache, sh, m, fail) ==
    [category_map |-> cmap, current_month_cache |-> cache, sheet |-> sh,
     raised |-> FALSE, resolver |-> "not_called",
     ws |-> 0, created |-> FALSE, seeded |-> FALSE]

\* if not category_map: setup_monthly_worksheet()
EnsureCategories(cmap, cache, sh, m, fail) ==
    IF cmap = EmptyDict
    THEN setup_monthly_worksheet(cmap, cache, sh, m, fail)
    ELSE [category_map |-> cmap, current_month_cache |-> cache, sheet |-> sh,
          raised |-> FALSE, resolver |-> "not_called",
          ws |-> 0, created |-> FALSE, seeded |-> FALSE]

\* The globals and the spreadsheet as a resolver (or writer) result leaves them.
Globals(e) ==
    /\ category_map' = e.category_map
    /\ current_month_cache' = e.current_month_cache
    /\ sheet' = e.sheet

\* The system date crosses into the next month.
tick ==
    /\ month < MaxMonth
    /\ month' = month + 1
    /\ last' = Event("tick", NoKey, "none")
    /\ UNCHANGED <<category_map, current_month_cache, sheet, conv, user_data,
                   kbd, writes>>

\* /start
start(fail) ==
    \E e \in {EnsureCategories(category_map, current_month_cache, sheet, month,
                                 fail)} :
        /\ Globals(e)
        /\ last' = Resolved(Event("start", NoKey,
                        IF e.raised THEN "raised" ELSE "welcome"), e)
        /\ UNCHANGED <<month, conv, user_data, kbd, writes>>

\* show_categories, run for the /categories command (k is NoKey) or by
\* handle_text_messages for the Categories button text of conversation k.
show_categories(k, fail) ==
    \E e \in {EnsureCategories(category_map, current_month_cache, sheet, month,
                                 fail)} :
        /\ Globals(e)
        /\ last' = Resolved(Event("show_categories", k,
                        IF e.raised THEN "raised" ELSE "categories"), e)
        /\ UNCHANGED <<month, conv, user_data, kbd, writes>>

\* open_spreadsheet, run for the /spreadsheet command (k is NoKey) or by
\* handle_text_messages for the Open Spreadsheet button text of conversation k.
open_spreadsheet(k, fail) ==
    LET g == get_current_month(category_map, current_month_cache, month)
        found == FindWorksheet(sheet, g.month)
    IN  /\ category_map' = g.category_map
        /\ current_month_cache' = g.current_month_cache
        /\ sheet' = IF fail = "none" /\ found = 0
                    THEN AddWorksheet(sheet, g.month) ELSE sheet
        /\ last' = Event("open_spreadsheet", k,
                         IF fail = "none" THEN "link" ELSE "raised")
        /\ UNCHANGED <<month, conv, user_data, kbd, writes>>

\* The entry points of the dialogue, /expense, the Add Expense button text and
\* the add_expense callback, all run expense_start.  They are taken only while
\* the conversation is not in a state.
expense_start(k, fail) ==
    \E e \in {EnsureCategories(category_map, current_month_cache, sheet, month,
                                 fail)} :
        /\ \E u \in EntryUpdates : Handler(conv[k], u) = "expense_start"
        /\ Globals(e)
        /\ IF e.raised
           THEN /\ last' = Resolved(Event("expense_start", k, "raised"), e)
                /\ UNCHANGED <<conv, kbd>>
           ELSE IF e.category_map = EmptyDict
           THEN /\ last' = Resolved(Event("expense_start", k, "no_categories"), e)
                /\ UNCHANGED <<conv, kbd>>
           ELSE /\ last' = Resolved(Event("expense_start", k, "select_category"), e)
                /\ conv' = [conv EXCEPT ![k] = "CATEGORY"]
                /\ kbd' = [kbd EXCEPT ![k] = DOMAIN e.category_map]
        /\ UNCHANGED <<month, user_data, writes>>

\* A press of a category button of the dialogue's message, with callback data
\* `data`.
category_selected(k, data) ==
    LET category == RemoveCatPrefix(data)
    IN  /\ Handler(conv[k], "cat_") = "category_selected"
        /\ data \in {CallbackData(c) : c \in kbd[k]}
        /\ user_data' = [user_data EXCEPT ![UserOf(k)] = Put(@, "category", category)]
        /\ conv' = [conv EXCEPT ![k] = "AMOUNT"]
        /\ kbd' = [kbd EXCEPT ![k] = {}]
        /\ last' = [Event("category_selected", k, "category_selected")
                       EXCEPT !.text = data]
        /\ UNCHANGED <<month, category_map, current_month_cache, sheet, writes>>

\* A press of the Change Category button.
change_category_handler(k, fail) ==
    \E e \in {EnsureCategories(category_map, current_month_cache, sheet, month,
                                 fail)} :
        /\ Handler(conv[k], "change_category") = "change_category_handler"
        /\ user_data' = [user_data EXCEPT ![UserOf(k)] = EmptyDict]
        /\ Globals(e)
        /\ IF e.raised
           THEN /\ last' = Resolved(Event("change_category_handler", k, "raised"), e)
                /\ UNCHANGED <<conv, kbd>>
           ELSE /\ last' = Resolved(Event("change_category_handler", k, "select_category"), e)
                /\ conv' = [conv EXCEPT ![k] = "CATEGORY"]
                /\ kbd' = [kbd EXCEPT ![k] = DOMAIN e.category_map]
        /\ UNCHANGED <<month, writes>>

\* A press of the Cancel button.
cancel_expense_handler_keep(k) ==
    /\ conv[k] = "AMOUNT"
    /\ conv' = [conv EXCEPT ![k] = "END"]
    /\ last' = Event("cancel_expense_handler", k, "cancelled")
    /\ UNCHANGED <<month, category_map, current_month_cache, sheet, kbd, writes,
                   user_data>>

cancel_expense_handler(k) ==
    /\ Handler(conv[k], "cancel_expense") = "cancel_expense_handler"
    /\ user_data' = [user_data EXCEPT ![UserOf(k)] = EmptyDict]
    /\ conv' = [conv EXCEPT ![k] = "END"]
    /\ last' = Event("cancel_expense_handler", k, "cancelled")
    /\ UNCHANGED <<month, category_map, current_month_cache, sheet, kbd, writes>>

\* Lines 356-362 with the comma replaced in the whole text.
AmountDescriptionAll(text) == Strip(ReplaceComma(text))

\* f"{amount_str} {description}".strip() of lines 356-362
AmountDescription(text) ==
    LET parts == Split1(text)
        amount_str == ReplaceComma(parts[1])
        description == IF Len(parts) > 1 THEN parts[2] ELSE EmptyStr
    IN  Strip(amount_str \o <<" ">> \o description)

\* Lines 368-381 with the success message sent whatever the writer did.
WriterReplySuccess(result) == "success"

\* The reply of lines 368-381 to a result of add_expense_to_sheet.
WriterReply(result) ==
    IF result = "ok" THEN "success"
    ELSE IF result = "not_found" THEN "error: category not found"
    ELSE "error: remote"

\* A text message that is no command, in AMOUNT_AND_DESCRIPTION.
amount_and_description_entered(k, text, fail) ==
    LET parts == Split1(text)
        ev == [Event("amount_and_description_entered", k, "raised")
                 EXCEPT !.text = text]
    IN  /\ Handler(conv[k], "text") = "amount_and_description_entered"
        /\ writes < MaxWrites
        /\ IF Len(parts) = 0
           THEN \* IndexError at parts[0]: the re-prompt of lines 383-389
                /\ last' = [ev EXCEPT !.reply = "reprompt"]
                /\ UNCHANGED <<category_map, current_month_cache, sheet, conv, writes>>
           ELSE IF "category" \notin DOMAIN user_data[UserOf(k)]
           THEN \* KeyError at line 364: caught by neither except clause
                /\ last' = ev
                /\ UNCHANGED <<category_map, current_month_cache, sheet, conv, writes>>
           ELSE \E w \in {add_expense_to_sheet(category_map, current_month_cache,
                            sheet, month, user_data[UserOf(k)]["category"],
                            AmountDescription(text), fail)} :
                    /\ Globals(w)
                    /\ writes' = writes + 1
                    /\ conv' = [conv EXCEPT ![k] = "END"]
                    /\ last' = [ev EXCEPT !.reply = WriterReply(w.result),
                                          !.resolver = w.resolver,
                                          !.row = w.row, !.col = w.col]
        /\ UNCHANGED <<month, user_data, kbd>>

\* A text message that the ConversationHandler does not take: the text of a
\* keyboard button runs that button's handler, any other text is answered by
\* "I don't understand".
handle_text_messages(k, text, fail) ==
    /\ Handler(conv[k], text) = "handle_text_messages"
    /\ IF text = "Categories" THEN show_categories(k, fail)
       ELSE IF text = "Open Spreadsheet"
       THEN fail \in {"none", "open"} /\ open_spreadsheet(k, fail)
       ELSE /\ fail = "none"
            /\ last' = Event("handle_text_messages", k,
                             IF text = "Help" THEN "help" ELSE "not_understood")
            /\ UNCHANGED <<month, category_map, current_month_cache, sheet,
                           conv, user_data, kbd, writes>>

\* An update u of conversation k that no handler matches: nothing runs.
unhandled(k, u) ==
    /\ Handler(conv[k], u) = "none"
    /\ last' = Event("unhandled", k, "none")
    /\ UNCHANGED <<month, category_map, current_month_cache, sheet, conv,
                   user_data, kbd, writes>>

\* The updates of the conversations `convs`, with free texts from `texts`,
\* texts outside the dialogue from `others`, and remote failures from `rfails`
\* (resolver) and `wfails` (writer).
Step(convs, texts, others, rfails, wfails) ==
    \/ tick
    \/ \E fail \in rfails : start(fail)
    \/ \E fail \in rfails : show_categories(NoKey, fail)
    \/ \E fail \in rfails \cap {"none", "open"} : open_spreadsheet(NoKey, fail)
    \/ \E k \in convs, fail \in rfails : expense_start(k, fail)
    \/ \E k \in convs : \E c \in kbd[k] : category_selected(k, CallbackData(c))
    \/ \E k \in convs, fail \in rfails : change_category_handler(k, fail)
    \/ \E k \in convs : cancel_expense_handler(k)
    \/ \E k \in convs, text \in texts, fail \in wfails :
          amount_and_description_entered(k, text, fail)
    \/ \E k \in convs, text \in others, fail \in rfails :
          handle_text_messages(k, text, fail)
    \/ \E k \in convs, u \in Updates : unhandled(k, u)

\* The dialogues of all conversations, with one free text and a writer whose
\* amount write may fail.
Next == Step(Convs, {<<"5", " ", "a">>}, {"text"}, {"none"}, {"none", "amount"})

Spec == Init /\ [][Next]_vars

\* One conversation, with every text and every remote failure.
NextSheet ==
    Step({<<"c1", "u1">>}, Texts, TextUpdates, ResolverFailures, WriterFailures)

SpecSheet == Init /\ [][NextSheet]_vars

\* ================================================================= claims
CurrentTitle == MonthLabel(month)

Titles(sh) == {sh[i].title : i \in 1..Len(sh)}

\* The text of a cell of the worksheet `title`; a worksheet that does not exist
\* holds nothing.
CellAt(sh, title, r, c) ==
    IF FindWorksheet(sh, title) = 0 THEN EmptyStr
    ELSE sh[FindWorksheet(sh, title)].cells[r][c]

Blank(v) == Strip(v) = EmptyStr

\* The non-blank trimmed texts of row 1 of the worksheet `title`.
HeaderNames(sh, title) ==
    {Strip(CellAt(sh, title, 1, c)) : c \in 1..NumCols} \ {EmptyStr}

AmountEvent == last.op = "amount_and_description_entered"

\* C1: after the system date has crossed into a new month, a category-requiring
\* operation that completes leaves the index rebuilt from the worksheet of the
\* month that is now current: the cached month is the current month and the
\* index names exactly the categories of that worksheet's header.
CategoryOps ==
    {"start", "show_categories", "expense_start", "change_category_handler",
     "amount_and_description_entered"}

C1_RolloverRebuildsIndex ==
    (last.op \in CategoryOps /\ last.reply \notin {"raised", "error: remote"})
    => /\ current_month_cache = CurrentTitle
       /\ FindWorksheet(sheet, CurrentTitle) # 0
       /\ DOMAIN category_map = HeaderNames(sheet, CurrentTitle)

\* C2: a step that completes and creates the current month's worksheet, while
\* the first month-named worksheet in listing order (other than the current
\* month's and "Sheet1") has a non-blank header cell, leaves row 1 of the new
\* worksheet equal to that worksheet's header row.
PriorWorksheets(sh, title) ==
    {j \in 1..Len(sh) : /\ sh[j].title # title
                        /\ sh[j].title # "Sheet1"
                        /\ ParsesAsMonth(sh[j].title)}

FirstPrior(sh, title) ==
    CHOOSE j \in PriorWorksheets(sh, title) :
        \A i \in PriorWorksheets(sh, title) : j <= i

CreatesCurrentWorksheet ==
    /\ FindWorksheet(sheet, CurrentTitle) = 0
    /\ FindWorksheet(sheet', CurrentTitle) # 0

C2_CreationCopiesHeader ==
    [][(/\ CreatesCurrentWorksheet
        /\ last'.reply \notin {"raised", "error: remote"}
        /\ PriorWorksheets(sheet, CurrentTitle) # {}
        /\ \E c \in 1..NumCols :
              ~Blank(sheet[FirstPrior(sheet, CurrentTitle)].cells[1][c]))
       => \A c \in 1..NumCols :
              CellAt(sheet', CurrentTitle, 1, c)
                = sheet[FirstPrior(sheet, CurrentTitle)].cells[1][c]]_vars

\* C3 as stated: after setup_monthly_worksheet has returned, the current
\* month's worksheet exists and the index holds one entry per non-blank header
\* cell, keyed by the trimmed text and valued by the cell's column, and nothing
\* else.
C3_OneEntryPerCell ==
    last.resolver = "returned"
    => /\ FindWorksheet(sheet, CurrentTitle) # 0
       /\ \A c \in 1..NumCols :
             ~Blank(CellAt(sheet, CurrentTitle, 1, c))
             => /\ Strip(CellAt(sheet, CurrentTitle, 1, c)) \in DOMAIN category_map
                /\ category_map[Strip(CellAt(sheet, CurrentTitle, 1, c))] = c
       /\ \A n \in DOMAIN category_map :
             /\ category_map[n] \in 1..NumCols
             /\ Strip(CellAt(sheet, CurrentTitle, 1, category_map[n])) = n

\* C3 as amended: after setup_monthly_worksheet has returned, the current
\* month's worksheet exists and the index holds one entry per distinct
\* non-blank trimmed header text, valued by the column of the last cell that
\* holds it, and nothing else.
C3_OneEntryPerName ==
    last.resolver = "returned"
    => /\ FindWorksheet(sheet, CurrentTitle) # 0
       /\ DOMAIN category_map = HeaderNames(sheet, CurrentTitle)
       /\ \A n \in DOMAIN category_map :
             /\ category_map[n] \in 1..NumCols
             /\ Strip(CellAt(sheet, CurrentTitle, 1, category_map[n])) = n
             /\ \A c \in 1..NumCols :
                   Strip(CellAt(sheet, CurrentTitle, 1, c)) = n => c <= category_map[n]

\* The resolver has returned on a header that names a category twice.
C3_Witness ==
    /\ last.resolver = "returned"
    /\ category_map # EmptyDict
    /\ \E c1, c2 \in 1..NumCols :
          /\ c1 < c2
          /\ ~Blank(CellAt(sheet, CurrentTitle, 1, c1))
          /\ Strip(CellAt(sheet, CurrentTitle, 1, c1))
               = Strip(CellAt(sheet, CurrentTitle, 1, c2))

\* The category a text of the dialogue passes to the writer.
StoredCategory(k) == user_data[UserOf(k)]["category"]

\* The step is a call of add_expense_to_sheet whose resolver returned and whose
\* category is absent from the index the resolver rebuilt.
LookupMiss ==
    /\ last'.op = "amount_and_description_entered"
    /\ last'.resolver = "returned"
    /\ "category" \in DOMAIN user_data[UserOf(last'.key)]
    /\ StoredCategory(last'.key) \notin DOMAIN category_map'

\* C4 as stated: a call of add_expense_to_sheet with a category absent from the
\* index fails with the category-not-found error and writes no cell.
C4_MissWritesNoCell ==
    [][LookupMiss
       => /\ last'.reply = "error: category not found"
          /\ \A title \in Titles(sheet'), r \in 1..NumRows, c \in 1..NumCols :
                CellAt(sheet', title, r, c) = CellAt(sheet, title, r, c)]_vars

\* C4 as amended: a call of add_expense_to_sheet whose category is absent from
\* the index as its resolver rebuilt it fails with the category-not-found error
\* and writes no expense cell: every worksheet that existed keeps all its
\* cells, and a worksheet the call created holds nothing below its header row.
C4_MissWritesNoEntry ==
    [][LookupMiss
       => /\ last'.reply = "error: category not found"
          /\ \A title \in Titles(sheet'), r \in 1..NumRows, c \in 1..NumCols :
                (title \in Titles(sheet) \/ r >= 2)
                => CellAt(sheet', title, r, c) = CellAt(sheet, title, r, c)]_vars

\* The writer has failed with category-not-found in a call that created the
\* month's worksheet and copied a header into it.
C4_Witness ==
    /\ AmountEvent
    /\ last.reply = "error: category not found"
    /\ month = 2
    /\ category_map # EmptyDict
    /\ "category" \in DOMAIN user_data[UserOf(last.key)]
    /\ StoredCategory(last.key) \notin HeaderNames(sheet, CurrentTitle)

\* C5: the row the writer computes for a category is the first row, from row 2
\* downward, whose amount cell was blank before the call; when the column held
\* entries in rows 2..k and blanks thereafter, that row is k + 1.
WriterComputedRow ==
    /\ last'.op = "amount_and_description_entered"
    /\ last'.row # 0

C5_TargetRow ==
    [][WriterComputedRow
       => LET before(r) == CellAt(sheet, MonthLabel(month), r, last'.col)
          IN  /\ last'.row \in 2..(NumRows + 1)
              /\ \A r \in 2..(last'.row - 1) : ~Blank(before(r))
              /\ last'.row <= NumRows => Blank(before(last'.row))
              /\ \A k \in 1..NumRows :
                    (/\ \A r \in 2..k : ~Blank(before(r))
                     /\ \A r \in (k + 1)..NumRows : Blank(before(r)))
                    => last'.row = k + 1
              /\ last'.reply = "success"
                 => ~Blank(CellAt(sheet', MonthLabel(month), last'.row, last'.col))]_vars

\* The writer has written to row 3 of a column that held one entry, in row 2.
C5_Witness ==
    /\ AmountEvent
    /\ last.reply = "success"
    /\ last.row = 3
    /\ ~Blank(CellAt(sheet, CurrentTitle, 2, last.col))
    /\ ~Blank(CellAt(sheet, CurrentTitle, 3, last.col))

\* A and D are the amount token and the description of the writer's input: the
\* text before its first space and the text after it.
IsSplit(arg, A, D) ==
    \/ /\ \A i \in 1..Len(arg) : arg[i] # " "
       /\ A = arg
       /\ D = EmptyStr
    \/ \E p \in 1..Len(arg) :
          /\ arg[p] = " "
          /\ \A i \in 1..(p - 1) : arg[i] # " "
          /\ A = SubSeq(arg, 1, p - 1)
          /\ D = SubSeq(arg, p + 1, Len(arg))

WriterSucceeded ==
    /\ last'.op = "amount_and_description_entered"
    /\ last'.reply = "success"

\* C6 as stated: after a successful write the target cell reads the amount
\* token, the cell to its right reads the description, and no other cell of the
\* spreadsheet has changed.
C6_RoundTripOnlyTwoCells ==
    [][WriterSucceeded
       => LET title == MonthLabel(month)
              row == last'.row
              col == last'.col
          IN  /\ IsSplit(AmountDescription(last'.text),
                         CellAt(sheet', title, row, col),
                         CellAt(sheet', title, row, col + 1))
              /\ \A t \in Titles(sheet'), r \in 1..NumRows, c \in 1..NumCols :
                    ~(t = title /\ r = row /\ c \in {col, col + 1})
                    => CellAt(sheet', t, r, c) = CellAt(sheet, t, r, c)]_vars

\* C6 as amended: after a successful write the target cell reads the amount
\* token and the cell to its right reads the description; these are the only
\* cells the call changes in a worksheet that existed before the call, and the
\* only cells below the header row in a worksheet the call created.
C6_RoundTrip ==
    [][WriterSucceeded
       => LET title == MonthLabel(month)
              row == last'.row
              col == last'.col
          IN  /\ row \in 2..NumRows
              /\ col = category_map'[StoredCategory(last'.key)]
              /\ IsSplit(AmountDescription(last'.text),
                         CellAt(sheet', title, row, col),
                         CellAt(sheet', title, row, col + 1))
              /\ \A t \in Titles(sheet'), r \in 1..NumRows, c \in 1..NumCols :
                    (/\ ~(t = title /\ r = row /\ c \in {col, col + 1})
                     /\ (t \in Titles(sheet) \/ r >= 2))
                    => CellAt(sheet', t, r, c) = CellAt(sheet, t, r, c)]_vars

\* "5 a" has been written to an empty column: "5" at row 2 and "a" to its right.
C6_Witness ==
    /\ AmountEvent
    /\ last.reply = "success"
    /\ last.text = <<"5", " ", "a">>
    /\ last.row = 2
    /\ CellAt(sheet, CurrentTitle, 2, last.col) = <<"5">>
    /\ CellAt(sheet, CurrentTitle, 2, last.col + 1) = <<"a">>

\* C7: a press of cancel in AMOUNT_AND_DESCRIPTION ends the dialogue and leaves
\* the user without a stored category; a conversation that has ended is next
\* in CATEGORY, AMOUNT_AND_DESCRIPTION is entered only by choosing a category,
\* which stores it, and the writer is called only from AMOUNT_AND_DESCRIPTION
\* with a stored category.
C7_CancelClearsSelection ==
    [][\A k \in Convs :
          /\ (last'.op = "cancel_expense_handler" /\ last'.key = k)
             => /\ conv[k] = "AMOUNT"
                /\ conv'[k] = "END"
                /\ user_data'[UserOf(k)] = EmptyDict
          /\ (conv[k] = "END" /\ conv'[k] # "END") => conv'[k] = "CATEGORY"
          /\ (conv[k] # "AMOUNT" /\ conv'[k] = "AMOUNT")
             => /\ conv[k] = "CATEGORY"
                /\ last'.op = "category_selected"
                /\ "category" \in DOMAIN user_data'[UserOf(k)]
          /\ (writes' # writes /\ last'.key = k)
             => /\ conv[k] = "AMOUNT"
                /\ "category" \in DOMAIN user_data[UserOf(k)]]_vars

\* A dialogue has just been cancelled.
C7_Witness ==
    /\ last.op = "cancel_expense_handler"
    /\ conv[last.key] = "END"
    /\ user_data[UserOf(last.key)] = EmptyDict

\* C8: a user none of whose conversations is in AMOUNT_AND_DESCRIPTION (each
\* has ended or is in CATEGORY) has no stored category.
C8_IdleUserHasNoCategory ==
    \A u \in Users :
        (\A k \in Convs : UserOf(k) = u => conv[k] # "AMOUNT")
        => "category" \notin DOMAIN user_data[u]

\* C9: a free text in AMOUNT_AND_DESCRIPTION calls the writer once, is answered
\* by the success or the error message, and ends the dialogue.
C9_TextEndsDialogue ==
    [][last'.op = "amount_and_description_entered"
       => /\ writes' = writes + 1
          /\ last'.reply \in {"success", "error: category not found", "error: remote"}
          /\ conv[last'.key] = "AMOUNT"
          /\ conv'[last'.key] = "END"]_vars

\* The amount token of a text is a number: digits with at most one decimal
\* separator.
Digits == {"0", "1", "2", "3", "4", "5", "6", "7", "8", "9"}

IsNumber(token) ==
    /\ \E i \in 1..Len(token) : token[i] \in Digits
    /\ \A i \in 1..Len(token) : token[i] \in Digits \cup {".", ","}
    /\ Cardinality({i \in 1..Len(token) : token[i] \in {".", ","}}) <= 1

Malformed(text) == ~IsNumber(Split1(text)[1])

\* C10: a malformed text in AMOUNT_AND_DESCRIPTION is answered by the re-prompt
\* and changes nothing: the conversation stays in AMOUNT_AND_DESCRIPTION with
\* the same stored category and the spreadsheet is as before.
C10_MalformedReprompts ==
    [][(last'.op = "amount_and_description_entered" /\ Malformed(last'.text))
       => /\ last'.reply = "reprompt"
          /\ conv' = conv
          /\ user_data' = user_data
          /\ sheet' = sheet]_vars

\* The step is a run of expense_start for an entry point.
EntryStep == last'.op = "expense_start"

\* C11 as stated: an entry point calls the resolver exactly when the index is
\* empty; the dialogue moves to CATEGORY exactly when the index is non-empty
\* afterwards, and otherwise "no categories found" is reported and the dialogue
\* is ended.
C11_EntryGuardAlways ==
    [][EntryStep
       => /\ (last'.resolver # "not_called") <=> (category_map = EmptyDict)
          /\ (conv'[last'.key] = "CATEGORY") <=> (category_map' # EmptyDict)
          /\ category_map' = EmptyDict
             => /\ last'.reply = "no_categories"
                /\ conv'[last'.key] = "END"]_vars

\* C11 as amended: an entry point calls the resolver exactly when the index is
\* empty; when that call returns (or is not made) the dialogue moves to
\* CATEGORY, with the keys of the index as choices, exactly when the index is
\* non-empty afterwards, and otherwise "no categories found" is reported and
\* the dialogue is ended; when the call raises nothing is reported and the
\* dialogue stays ended.
C11_EntryGuard ==
    [][EntryStep
       => /\ (last'.resolver # "not_called") <=> (category_map = EmptyDict)
          /\ (conv'[last'.key] = "CATEGORY") <=> (category_map' # EmptyDict)
          /\ conv'[last'.key] = "CATEGORY"
             => /\ last'.reply = "select_category"
                /\ kbd'[last'.key] = DOMAIN category_map'
          /\ (category_map' = EmptyDict /\ last'.resolver # "raised")
             => /\ last'.reply = "no_categories"
                /\ conv'[last'.key] = "END"
          /\ last'.resolver = "raised"
             => /\ last'.reply = "raised"
                /\ category_map' = EmptyDict
                /\ conv'[last'.key] = "END"]_vars

\* An entry point has called the resolver on an empty index, found no
\* category in the header and ended the dialogue.
C11_Witness ==
    /\ last.op = "expense_start"
    /\ last.resolver = "returned"
    /\ last.reply = "no_categories"
    /\ category_map = EmptyDict
    /\ conv[last.key] = "END"

\* The amount token as the claim states it: each comma replaced by a period.
CommaToPeriod(a) == [i \in 1..Len(a) |-> IF a[i] = "," THEN "." ELSE a[i]]

\* C12: for a user text "<amount> <description>", an amount token without
\* spaces, one space and a non-empty remaining text, a successful write puts
\* the amount token with its commas replaced by periods into the amount cell
\* and the remaining text, unchanged, into the cell to its right.
C12_CommaNormalized ==
    [][WriterSucceeded
       => \A p \in 2..(Len(last'.text) - 1) :
             (/\ last'.text[p] = " "
              /\ \A i \in 1..(p - 1) : last'.text[i] # " ")
             => /\ CellAt(sheet', MonthLabel(month), last'.row, last'.col)
                     = CommaToPeriod(SubSeq(last'.text, 1, p - 1))
                /\ CellAt(sheet', MonthLabel(month), last'.row, last'.col + 1)
                     = SubSeq(last'.text, p + 1, Len(last'.text))]_vars

\* "5,5 a,b" has been written: "5.5" in the amount cell and "a,b" to its right.
C12_Witness ==
    /\ AmountEvent
    /\ last.reply = "success"
    /\ last.text = <<"5", ",", "5", " ", "a", ",", "b">>
    /\ CellAt(sheet, CurrentTitle, last.row, last.col) = <<"5", ".", "5">>
    /\ CellAt(sheet, CurrentTitle, last.row, last.col + 1) = <<"a", ",", "b">>

\* C13: after a successful write of a text whose amount token is followed by
\* one or more spaces and a description, the amount cell holds the text before
\* the first space and the description cell begins with no space.
C13_DescriptionNoLeadingSpace ==
    [][WriterSucceeded
       => \A p \in 2..(Len(last'.text) - 1) :
             (/\ last'.text[p] = " "
              /\ \A i \in 1..(p - 1) : last'.text[i] # " "
              /\ \E i \in (p + 1)..Len(last'.text) : last'.text[i] # " ")
             => /\ CellAt(sheet', MonthLabel(month), last'.row, last'.col)
                     = CommaToPeriod(SubSeq(last'.text, 1, p - 1))
                /\ CellAt(sheet', MonthLabel(month), last'.row, last'.col + 1)
                     # EmptyStr
                /\ CellAt(sheet', MonthLabel(month), last'.row,
                          last'.col + 1)[1] # " "]_vars

\* The step handles an update of conversation k, in CATEGORY or AMOUNT, that
\* matches no transition of that state: no handler runs, or the text handler
\* outside the dialogue runs (for a button text, that button's handler), or an
\* entry point runs.
UnmatchedStep(k) ==
    /\ conv[k] \in {"CATEGORY", "AMOUNT"}
    /\ last'.key = k
    /\ last'.op \in {"unhandled", "handle_text_messages", "show_categories",
                     "open_spreadsheet", "expense_start"}

\* The step writes no expense: every worksheet that existed keeps its place and
\* all its cells, and a worksheet the step created holds nothing below its
\* header row.
NoExpenseWritten ==
    /\ Len(sheet') >= Len(sheet)
    /\ \A i \in 1..Len(sheet) : sheet'[i] = sheet[i]
    /\ \A i \in (Len(sheet) + 1)..Len(sheet') :
          \A r \in 2..NumRows, c \in 1..NumCols :
             sheet'[i].cells[r][c] = EmptyStr

\* C14 as stated: an update that matches no transition of the dialogue's state
\* leaves the conversation state and the stored category unchanged and the
\* spreadsheet as it was.
C14_UnmatchedChangesNothing ==
    [][\A k \in Convs :
          UnmatchedStep(k)
          => /\ conv' = conv
             /\ user_data' = user_data
             /\ sheet' = sheet]_vars

\* C14 as amended: an update that matches no transition of the dialogue's state
\* leaves the conversation state, the choices offered and the stored category
\* unchanged and writes no expense (every worksheet that existed keeps all its
\* cells, a worksheet created holds nothing below its header row); an entry
\* point runs only for a conversation that is in no state.
C14_UnmatchedKeepsDialogue ==
    [][/\ \A k \in Convs :
             UnmatchedStep(k)
             => /\ conv' = conv
                /\ kbd' = kbd
                /\ user_data' = user_data
                /\ writes' = writes
                /\ NoExpenseWritten
       /\ EntryStep => conv[last'.key] = "END"]_vars

\* The Open Spreadsheet button text has been answered for a conversation that
\* is in CATEGORY, after the month has changed.
C14_Witness ==
    /\ last.op = "open_spreadsheet"
    /\ last.key \in Convs
    /\ last.reply = "link"
    /\ conv[last.key] = "CATEGORY"
    /\ month = 2
    /\ FindWorksheet(sheet, CurrentTitle) # 0

\* The step is a call of the writer, with a description after the first space
\* of its input, that wrote the amount cell and left the cell to its right
\* without that description.
PartialWrite ==
    /\ last'.op = "amount_and_description_entered"
    /\ last'.row \in 2..NumRows
    /\ CellAt(sheet', MonthLabel(month), last'.row, last'.col)
         # CellAt(sheet, MonthLabel(month), last'.row, last'.col)
    /\ LET arg == AmountDescription(last'.text)
       IN  \E p \in 1..(Len(arg) - 1) :
              /\ arg[p] = " "
              /\ \A i \in 1..(p - 1) : arg[i] # " "
              /\ (\/ last'.col + 1 > NumCols
                  \/ CellAt(sheet', MonthLabel(month), last'.row, last'.col + 1)
                       # SubSeq(arg, p + 1, Len(arg)))

\* C15: when the writer has written the amount cell and the write of the
\* description cell fails, the amount stays written, the description cell is
\* as it was, the error is reported and the dialogue ends; and every call of
\* the writer targets a row whose amount cell was blank, so a later entry for
\* the category goes below the half-written row.
C15_NoRollback ==
    [][/\ PartialWrite
          => /\ ~Blank(CellAt(sheet', MonthLabel(month), last'.row, last'.col))
             /\ last'.col + 1 <= NumCols
                => CellAt(sheet', MonthLabel(month), last'.row, last'.col + 1)
                     = CellAt(sheet, MonthLabel(month), last'.row, last'.col + 1)
             /\ last'.reply = "error: remote"
             /\ conv'[last'.key] = "END"
       /\ WriterComputedRow
          => \A r \in 2..NumRows :
                ~Blank(CellAt(sheet, MonthLabel(month), r, last'.col))
                => last'.row # r]_vars

\* After the write of "5,5 a,b" left "5.5" in row 2 without its description,
\* a later entry for the category has been written to row 3.
C15_Witness ==
    /\ AmountEvent
    /\ last.reply = "success"
    /\ last.row = 3
    /\ CellAt(sheet, CurrentTitle, 2, last.col) = <<"5", ".", "5">>
    /\ CellAt(sheet, CurrentTitle, 2, last.col + 1) = EmptyStr
    /\ ~Blank(CellAt(sheet, CurrentTitle, 3, last.col))

\* C16: a conversation in AMOUNT_AND_DESCRIPTION belongs to a user whose
\* session holds a selected category.
C16_AmountHasCategory ==
    \A k \in Convs :
       conv[k] = "AMOUNT" => "category" \in DOMAIN user_data[UserOf(k)]

\* The columns the index names as amount columns.
AmountColumns(cmap) == {cmap[n] : n \in DOMAIN cmap}

\* C17: a call of the writer that writes targets an amount cell in row 2 or
\* below that was blank before the call, and no amount recorded before the call
\* (a non-blank cell below the header in an amount column of the index) is
\* changed by it.
C17_NoAmountLost ==
    [][(last'.op = "amount_and_description_entered" /\ sheet' # sheet)
       => /\ last'.reply = "success"
             => /\ last'.row >= 2
                /\ Blank(CellAt(sheet, MonthLabel(month), last'.row, last'.col))
          /\ \A i \in 1..Len(sheet), r \in 2..NumRows :
                \A c \in AmountColumns(category_map') :
                   (sheet[i].title = MonthLabel(month)
                    /\ ~Blank(sheet[i].cells[r][c]))
                   => sheet'[i].cells[r][c] = sheet[i].cells[r][c]]_vars

\* C18: a successful write for a category changes, below the header row, no
\* cell of a column that is the amount column of another category of the index.
C18_OtherAmountColumnsKept ==
    [][WriterSucceeded
       => \A c \in AmountColumns(category_map') \ {last'.col} :
             \A r \in 2..NumRows :
                CellAt(sheet', MonthLabel(month), r, c)
                  = CellAt(sheet, MonthLabel(month), r, c)]_vars

\* C19: the category stored at a press of a category button is the category of
\* that button; a successful write changes the worksheet of the month that is
\* current at the write, in a column whose trimmed header cell is the stored
\* category; and a text whose stored category the current month's header does
\* not name is answered by the error, with the spreadsheet as it was.
C19_WriteLandsInSelectedColumn ==
    [][/\ last'.op = "category_selected"
          => last'.text = CallbackData(user_data'[UserOf(last'.key)]["category"])
       /\ WriterSucceeded
          => /\ current_month_cache' = MonthLabel(month)
             /\ FindWorksheet(sheet', MonthLabel(month)) # 0
             /\ \A i \in 1..Len(sheet) :
                   sheet[i].title # MonthLabel(month) => sheet'[i] = sheet[i]
             /\ last'.col \in 1..NumCols
             /\ Strip(CellAt(sheet', MonthLabel(month), 1, last'.col))
                  = StoredCategory(last'.key)
       /\ (/\ last'.op = "amount_and_description_entered"
           /\ last'.resolver = "returned"
           /\ "category" \in DOMAIN user_data[UserOf(last'.key)]
           /\ StoredCategory(last'.key)
                \notin HeaderNames(sheet', MonthLabel(month)))
          => /\ last'.reply = "error: category not found"
             /\ sheet' = sheet]_vars

\* C20: a step leaves no conversation in CATEGORY without choices, and a run of
\* change_category_handler that returns the dialogue to CATEGORY leaves the
\* index non-empty and offers exactly its keys.
C20_CategoryHasChoices ==
    [][/\ \A k \in Convs : conv'[k] = "CATEGORY" => kbd'[k] # {}
       /\ (last'.op = "change_category_handler"
           /\ conv'[last'.key] = "CATEGORY")
          => /\ category_map' # EmptyDict
             /\ kbd'[last'.key] = DOMAIN category_map']_vars

====
